---- MODULE Spec2Model ----
(***************************************************************************)
(* Model of unchecked-index (src/src/lib.rs): the UncheckedIndex wrapper,  *)
(* the free functions get_unchecked / get_unchecked_mut, the CheckIndex    *)
(* assertions of the five index shapes and the slice access primitives.    *)
(*                                                                         *)
(* Memory is the backing array `data`; a slice reference (&[T], &mut [T])  *)
(* is a fat pointer [ptr, len] into it, positions counted from 0.          *)
(***************************************************************************)
EXTENDS Integers, Sequences, FiniteSets, TLC

\* Largest backing array that is explored.
MaxLen == 2

\* Element values (the tests store usize values).
Values == {0, 1}
\* Index components: every position of the largest array, its length, and one beyond.
Indices == 0..(MaxLen + 1)
\* An element value that may be absent: <<>> when no element was read or written,
\* <<x>> for the element x.
Undef == <<>>
Some(x) == <<x>>

VARIABLES
    debug_assertions,   \* cfg(debug_assertions): fixed by the build
    data,               \* the backing array (let mut data = [..; n])
    phase,              \* "unconstructed" | "constructed" | "discarded"
    w,                  \* the wrapper UncheckedIndex(S): <<v>>, or <<>> when there is none
    status,             \* "ok" | "panicked" | "trapped" | "corrupt"
    panic_msg,          \* the message of the panic that ended the run
    last,               \* the subscript operation performed last
    calls,              \* the calls that operation made, in order
    orig,               \* data as it was when the wrapper was constructed
    written,            \* per position: the last value stored through the wrapper by an in-bounds write
    ub                  \* an access outside the safety contract has been executed

vars == <<debug_assertions, data, phase, w, status, panic_msg, last, calls, orig, written, ub>>

----------------------------------------------------------------------------
(* Index values *)

Usize(i) == [shape |-> "usize", index |-> i, start |-> 0, end |-> 0]
Range(s, e) == [shape |-> "Range", index |-> 0, start |-> s, end |-> e]
RangeTo(e) == [shape |-> "RangeTo", index |-> 0, start |-> 0, end |-> e]
RangeFrom(s) == [shape |-> "RangeFrom", index |-> 0, start |-> s, end |-> 0]
RangeFull == [shape |-> "RangeFull", index |-> 0, start |-> 0, end |-> 0]

IndexValues ==
    {Usize(i) : i \in Indices}
        \cup {Range(s, e) : s \in Indices, e \in Indices}
        \cup {RangeTo(e) : e \in Indices}
        \cup {RangeFrom(s) : s \in Indices}
        \cup {RangeFull}

----------------------------------------------------------------------------
(* Panic messages: the format string and its arguments, each argument the  *)
(* source expression that is formatted and its value.                      *)

Arg(expr, val) == [expr |-> expr, val |-> val]
NoPanic == [fmt |-> "", args |-> <<>>]
PanicWith(fmt, args) == [fmt |-> fmt, args |-> args]

----------------------------------------------------------------------------
(* CheckIndex: assert_indexable_with for [T], per index shape.  Each gives *)
(* the message of the assertion that fails, NoPanic when none does.        *)

assert_indexable_with_usize_le(self, index) ==
    IF index.index <= self.len
    THEN NoPanic
    ELSE PanicWith("index {} is out of bounds in slice of len {}",
                   <<Arg("index", index.index), Arg("self.len()", self.len)>>)

assert_indexable_with_usize_nolen(self, index) ==
    IF index.index < self.len
    THEN NoPanic
    ELSE PanicWith("index {} is out of bounds", <<Arg("index", index.index)>>)

assert_indexable_with_usize(self, index) ==
    IF index.index < self.len
    THEN NoPanic
    ELSE PanicWith("index {} is out of bounds in slice of len {}",
                   <<Arg("index", index.index), Arg("self.len()", self.len)>>)

assert_indexable_with_Range_noorder(self, index) ==
    IF ~(index.end <= self.len)
    THEN PanicWith("end is greater than len={}", <<Arg("self.len()", self.len)>>)
    ELSE NoPanic

assert_indexable_with_Range(self, index) ==
    IF ~(index.start <= index.end)
    THEN PanicWith("start={} must be less than end={}",
                   <<Arg("index.start", index.start), Arg("index.end", index.end)>>)
    ELSE IF ~(index.end <= self.len)
    THEN PanicWith("end is greater than len={}", <<Arg("self.len()", self.len)>>)
    ELSE NoPanic

assert_indexable_with_RangeTo_lt(self, index) ==
    IF ~(index.end < self.len)
    THEN PanicWith("end is greater than len={}", <<Arg("self.len()", self.len)>>)
    ELSE NoPanic

assert_indexable_with_RangeTo(self, index) ==
    IF ~(index.end <= self.len)
    THEN PanicWith("end is greater than len={}", <<Arg("self.len()", self.len)>>)
    ELSE NoPanic

assert_indexable_with_RangeFrom_lt(self, index) ==
    IF ~(index.start < self.len)
    THEN PanicWith("end is greater than len={}", <<Arg("self.len()", self.len)>>)
    ELSE NoPanic

assert_indexable_with_RangeFrom(self, index) ==
    IF ~(index.start <= self.len)
    THEN PanicWith("end is greater than len={}", <<Arg("self.len()", self.len)>>)
    ELSE NoPanic

assert_indexable_with_RangeFull_nonempty(self, index) ==
    IF ~(0 < self.len)
    THEN PanicWith("end is greater than len={}", <<Arg("self.len()", self.len)>>)
    ELSE NoPanic

assert_indexable_with_RangeFull(self, index) == NoPanic

\* The impl selected by the index type (and the forwarding impls for &T, &mut T).
assert_indexable_with(self, index) ==
    CASE index.shape = "usize" -> assert_indexable_with_usize(self, index)
      [] index.shape = "Range" -> assert_indexable_with_Range(self, index)
      [] index.shape = "RangeTo" -> assert_indexable_with_RangeTo(self, index)
      [] index.shape = "RangeFrom" -> assert_indexable_with_RangeFrom(self, index)
      [] index.shape = "RangeFull" -> assert_indexable_with_RangeFull(self, index)

----------------------------------------------------------------------------
(* The backing array and references into it *)

Slice(ptr, len) == [ptr |-> ptr, len |-> len]
NoRef == Slice(0, 0)

InStorage(a) == 0 <= a /\ a < Len(data)
Load(mem, a) == mem[a + 1]
Store(mem, a, v) == [mem EXCEPT ![a + 1] = v]

\* The safety contract of the access primitives (and of the core slice methods they
\* forward to): the index is in bounds of the slice it is applied to.
InBounds(self, index) ==
    CASE index.shape = "usize" -> index.index < self.len
      [] index.shape = "Range" -> index.start <= index.end /\ index.end <= self.len
      [] index.shape = "RangeTo" -> index.end <= self.len
      [] index.shape = "RangeFrom" -> index.start <= self.len
      [] index.shape = "RangeFull" -> TRUE

----------------------------------------------------------------------------
(* GetUnchecked / GetUncheckedMut for [T]: the reference the primitive     *)
(* computes, with no validation.  A negative len stands for a length that  *)
(* has wrapped around.                                                     *)

slice_get_unchecked_usize(self, index) == Slice(self.ptr + index.index, 1)

slice_get_unchecked_mut_usize_first(self, index) == Slice(self.ptr, 1)

slice_get_unchecked_mut_usize(self, index) == Slice(self.ptr + index.index, 1)

slice_get_unchecked_range(self, index) ==
    CASE index.shape = "Range" -> Slice(self.ptr + index.start, index.end - index.start)
      [] index.shape = "RangeTo" -> Slice(self.ptr, index.end)
      [] index.shape = "RangeFrom" -> Slice(self.ptr + index.start, self.len - index.start)
      [] index.shape = "RangeFull" -> Slice(self.ptr, self.len)

slice_get_unchecked_mut_range(self, index) ==
    CASE index.shape = "Range" -> Slice(self.ptr + index.start, index.end - index.start)
      [] index.shape = "RangeTo" -> Slice(self.ptr, index.end)
      [] index.shape = "RangeFrom" -> Slice(self.ptr + index.start, self.len - index.start)
      [] index.shape = "RangeFull" -> Slice(self.ptr, self.len)

\* The impls for &T and &mut T forward to the impl for [T] chosen by the index type.
ref_get_unchecked(self, index) ==
    IF index.shape = "usize"
    THEN slice_get_unchecked_usize(self, index)
    ELSE slice_get_unchecked_range(self, index)

ref_get_unchecked_mut(self, index) ==
    IF index.shape = "usize"
    THEN slice_get_unchecked_mut_usize(self, index)
    ELSE slice_get_unchecked_mut_range(self, index)

----------------------------------------------------------------------------
(* The free functions.  The result records whether the call panicked, the  *)
(* panic message, the reference returned and the calls made, in order.     *)

Returned(ref, made) == [panic |-> FALSE, msg |-> NoPanic, ref |-> ref, calls |-> made]
Panicked(m, made) == [panic |-> TRUE, msg |-> m, ref |-> NoRef, calls |-> made]

get_unchecked_access_first(v, index) ==
    IF debug_assertions
    THEN LET m == assert_indexable_with(v, index)
         IN  IF m # NoPanic
             THEN Panicked(m, <<"get_unchecked", "assert_indexable_with">>)
             ELSE Returned(ref_get_unchecked(v, index),
                           <<"get_unchecked", "assert_indexable_with">>)
    ELSE Returned(ref_get_unchecked(v, index), <<"get_unchecked">>)

get_unchecked(v, index) ==
    IF debug_assertions
    THEN LET m == assert_indexable_with(v, index)
         IN  IF m # NoPanic
             THEN Panicked(m, <<"assert_indexable_with">>)
             ELSE Returned(ref_get_unchecked(v, index),
                           <<"assert_indexable_with", "get_unchecked">>)
    ELSE Returned(ref_get_unchecked(v, index), <<"get_unchecked">>)

get_unchecked_mut(v, index) ==
    IF debug_assertions
    THEN LET m == assert_indexable_with(v, index)
         IN  IF m # NoPanic
             THEN Panicked(m, <<"assert_indexable_with">>)
             ELSE Returned(ref_get_unchecked_mut(v, index),
                           <<"assert_indexable_with", "get_unchecked_mut">>)
    ELSE Returned(ref_get_unchecked_mut(v, index), <<"get_unchecked_mut">>)

\* unchecked_index(v) = UncheckedIndex(v): a tuple struct of one field, self.0 is w[1].
unchecked_index(v) == <<v>>

----------------------------------------------------------------------------
(* State machine *)

NoOp == [op |-> "none", index |-> RangeFull, len |-> 0, outcome |-> "none",
         ref |-> NoRef, k |-> 0, val |-> Undef]
Op(op, index, outcome, ref, k, val) ==
    [op |-> op, index |-> index, len |-> w[1].len, outcome |-> outcome,
     ref |-> ref, k |-> k, val |-> val]

\* The position of the wrapped slice that element k of the indexed place stands for.
Addressed(index, k) ==
    CASE index.shape = "usize" -> index.index
      [] index.shape = "Range" -> index.start + k
      [] index.shape = "RangeTo" -> k
      [] index.shape = "RangeFrom" -> index.start + k
      [] index.shape = "RangeFull" -> k

\* What a build may do with an access that breaks the safety contract (undefined
\* behaviour): carry it out at the computed address, drop it, or trap.
UBOutcomes == {"performed", "elided", "trap"}

\* The arrays [c; n] the wrapper is built on.
Arrays == {[p \in 1..n |-> c] : n \in 0..MaxLen, c \in Values}

Init ==
    /\ debug_assertions \in BOOLEAN
    /\ data \in Arrays
    /\ phase = "unconstructed"
    /\ w = <<>>
    /\ status = "ok"
    /\ panic_msg = NoPanic
    /\ last = NoOp
    /\ calls = <<>>
    /\ orig = data
    /\ written = [p \in 1..Len(data) |-> Undef]
    /\ ub = FALSE

\* let mut data = unchecked_index(&mut data[off..off+m])  (the slicing itself is the
\* language's checked one, so off + m <= data.len()).
Construct(off, m) ==
    /\ phase = "unconstructed"
    /\ status = "ok"
    /\ off + m <= Len(data)
    /\ w' = unchecked_index(Slice(off, m))
    /\ phase' = "constructed"
    /\ orig' = data
    /\ UNCHANGED <<debug_assertions, data, status, panic_msg, last, calls, written, ub>>

\* The elements of the place a subscript gives: the one element of a scalar
\* subscript, positions 0..len-1 of a view (0 stands in when the view has none).
Elements(ref, index) ==
    IF index.shape = "usize" \/ ref.len <= 0 THEN {0} ELSE 0..(ref.len - 1)

\* Index::index: &wrapper[index], then element k of the place is read.
Index(index) ==
    /\ phase = "constructed"
    /\ status = "ok"
    /\ ~ub
    /\ LET r == get_unchecked(w[1], index)
       IN  /\ calls' = r.calls
           /\ IF r.panic
              THEN /\ status' = "panicked"
                   /\ panic_msg' = r.msg
                   /\ last' = Op("index", index, "panic", NoRef, 0, Undef)
                   /\ UNCHANGED ub
              ELSE \E k \in Elements(r.ref, index) :
                   LET a == r.ref.ptr + k
                   IN  IF InBounds(w[1], index)
                       THEN /\ last' = Op("index", index, "ok", r.ref, k,
                                          IF r.ref.len = 0 THEN Undef ELSE Some(Load(data, a)))
                            /\ UNCHANGED <<status, panic_msg, ub>>
                       ELSE /\ ub' = TRUE
                            /\ UNCHANGED panic_msg
                            /\ \E o \in UBOutcomes :
                                 CASE o = "performed" /\ (r.ref.len = 0 \/ InStorage(a)) ->
                                        /\ last' = Op("index", index, "ub_performed", r.ref, k,
                                                      IF r.ref.len = 0 THEN Undef ELSE Some(Load(data, a)))
                                        /\ UNCHANGED status
                                   [] o = "performed" /\ ~(r.ref.len = 0 \/ InStorage(a)) ->
                                        /\ last' = Op("index", index, "ub_wild", r.ref, k, Undef)
                                        /\ status' = "corrupt"
                                   [] o = "elided" ->
                                        /\ \E x \in Values :
                                             last' = Op("index", index, "ub_elided", r.ref, k, Some(x))
                                        /\ UNCHANGED status
                                   [] o = "trap" ->
                                        /\ last' = Op("index", index, "ub_trap", r.ref, k, Undef)
                                        /\ status' = "trapped"
    /\ UNCHANGED <<debug_assertions, data, phase, w, orig, written>>

\* IndexMut::index_mut: wrapper[index] = v for a scalar index, wrapper[index][k] = v
\* for a range (an empty view is only taken, nothing is stored).
IndexMut(index, v) ==
    /\ phase = "constructed"
    /\ status = "ok"
    /\ ~ub
    /\ LET r == get_unchecked_mut(w[1], index)
       IN  /\ calls' = r.calls
           /\ IF r.panic
              THEN /\ status' = "panicked"
                   /\ panic_msg' = r.msg
                   /\ last' = Op("index_mut", index, "panic", NoRef, 0, Undef)
                   /\ UNCHANGED <<data, written, ub>>
              ELSE \E k \in Elements(r.ref, index) :
                   LET a == r.ref.ptr + k
                   IN  IF InBounds(w[1], index)
                       THEN /\ last' = Op("index_mut", index, "ok", r.ref, k,
                                          IF r.ref.len = 0 THEN Undef ELSE Some(v))
                            /\ data' = IF r.ref.len = 0 THEN data ELSE Store(data, a, v)
                            /\ written' = IF r.ref.len = 0 THEN written
                                          ELSE [written EXCEPT
                                                  ![w[1].ptr + Addressed(index, k) + 1] = Some(v)]
                            /\ UNCHANGED <<status, panic_msg, ub>>
                       ELSE /\ ub' = TRUE
                            /\ UNCHANGED <<panic_msg, written>>
                            /\ \E o \in UBOutcomes :
                                 CASE o = "performed" /\ r.ref.len = 0 ->
                                        /\ last' = Op("index_mut", index, "ub_performed", r.ref, k, Undef)
                                        /\ UNCHANGED <<data, status>>
                                   [] o = "performed" /\ r.ref.len # 0 /\ InStorage(a) ->
                                        /\ last' = Op("index_mut", index, "ub_performed", r.ref, k, Some(v))
                                        /\ data' = Store(data, a, v)
                                        /\ UNCHANGED status
                                   [] o = "performed" /\ r.ref.len # 0 /\ ~InStorage(a) ->
                                        /\ last' = Op("index_mut", index, "ub_wild", r.ref, k, Some(v))
                                        /\ status' = "corrupt"
                                        /\ UNCHANGED data
                                   [] o = "elided" ->
                                        /\ last' = Op("index_mut", index, "ub_elided", r.ref, k, Some(v))
                                        /\ UNCHANGED <<data, status>>
                                   [] o = "trap" ->
                                        /\ last' = Op("index_mut", index, "ub_trap", r.ref, k, Some(v))
                                        /\ status' = "trapped"
                                        /\ UNCHANGED data
    /\ UNCHANGED <<debug_assertions, phase, w, orig>>

\* The wrapper goes out of scope; the array is observed afterwards.
Discard ==
    /\ phase = "constructed"
    /\ status = "ok"
    /\ phase' = "discarded"
    /\ w' = <<>>
    /\ last' = NoOp
    /\ calls' = <<>>
    /\ UNCHANGED <<debug_assertions, data, status, panic_msg, orig, written, ub>>

Next ==
    \/ \E off \in 0..MaxLen, m \in 0..MaxLen : Construct(off, m)
    \/ \E index \in IndexValues : Index(index)
    \/ \E index \in IndexValues, v \in Values : IndexMut(index, v)
    \/ Discard

Spec == Init /\ [][Next]_vars

----------------------------------------------------------------------------
(* Properties *)

Validated == debug_assertions /\ last.op # "none"
Unvalidated == ~debug_assertions /\ last.op # "none"
Aborted == last.outcome = "panic" /\ status = "panicked"
Succeeded == last.outcome = "ok" /\ status = "ok"

\* The array the writes recorded in `written` should have produced from `orig`.
Expected ==
    [p \in 1..Len(orig) |-> IF written[p] = Undef THEN orig[p] ELSE written[p][1]]

\* C1: with debug assertions on, a read or a write subscript at scalar index i on a
\* slice of length n succeeds iff i < n and panics otherwise.
C1_ScalarValidated ==
    (Validated /\ last.index.shape = "usize") =>
        IF last.index.index < last.len THEN Succeeded ELSE Aborted

C1_Witness ==
    /\ Validated /\ last.op = "index_mut" /\ last.index.shape = "usize"
    /\ last.len > 0 /\ last.index.index = last.len
    /\ Aborted

\* C2: with debug assertions on, a subscript with the bounded range s..e on a slice of
\* length n succeeds iff s <= e and e <= n and panics otherwise.
C2_RangeValidated ==
    (Validated /\ last.index.shape = "Range") =>
        IF last.index.start <= last.index.end /\ last.index.end <= last.len
        THEN Succeeded ELSE Aborted

C2_Witness ==
    /\ Validated /\ last.index.shape = "Range"
    /\ last.index.start > last.index.end /\ last.index.end <= last.len
    /\ Aborted

\* C3: with debug assertions on, a subscript with the range ..e on a slice of length n
\* succeeds iff e <= n and panics otherwise.
C3_RangeToValidated ==
    (Validated /\ last.index.shape = "RangeTo") =>
        IF last.index.end <= last.len THEN Succeeded ELSE Aborted

C3_Witness ==
    /\ Validated /\ last.index.shape = "RangeTo"
    /\ last.len > 0 /\ last.index.end = last.len
    /\ Succeeded /\ last.ref = w[1]

\* C4: with debug assertions on, a subscript with the range s.. on a slice of length n
\* succeeds iff s <= n and panics otherwise.
C4_RangeFromValidated ==
    (Validated /\ last.index.shape = "RangeFrom") =>
        IF last.index.start <= last.len THEN Succeeded ELSE Aborted

C4_Witness ==
    /\ Validated /\ last.index.shape = "RangeFrom"
    /\ last.len > 0 /\ last.index.start = last.len
    /\ Succeeded /\ last.ref.len = 0

\* C5: a subscript with the full range .. never panics, whatever the length of the
\* slice and whether debug assertions are on or off.
C5_RangeFullAlwaysSucceeds ==
    (last.op # "none" /\ last.index.shape = "RangeFull") => Succeeded

C5_Witness ==
    /\ Validated /\ last.index.shape = "RangeFull"
    /\ last.len = 0
    /\ Succeeded

\* The bounds rule of each index shape.
BoundsRule(index, n) ==
    CASE index.shape = "usize" -> index.index < n
      [] index.shape = "Range" -> index.start <= index.end /\ index.end <= n
      [] index.shape = "RangeTo" -> index.end <= n
      [] index.shape = "RangeFrom" -> index.start <= n
      [] index.shape = "RangeFull" -> TRUE

\* C6: with debug assertions on, every subscript step calls the assertion first; when
\* the index breaks its shape's bounds rule the step panics, the access primitive is
\* not called, and the array is left as it was.
C6_CheckBeforeAccess ==
    [][(debug_assertions /\ last'.op # "none") =>
          /\ Head(calls') = "assert_indexable_with"
          /\ ~BoundsRule(last'.index, last'.len) =>
                /\ status' = "panicked"
                /\ calls' = <<"assert_indexable_with">>
                /\ data' = data
                /\ written' = written]_vars

C6_Witness ==
    /\ Validated /\ last.op = "index_mut" /\ Aborted
    /\ calls = <<"assert_indexable_with">>
    /\ \E p \in DOMAIN written : written[p] # Undef /\ written[p][1] # orig[p]
    /\ data = Expected

C8_WritesReachContainer ==
    (phase = "discarded" /\ ~ub) =>
        /\ Len(data) = Len(orig)
        /\ data = Expected

C8_Witness ==
    /\ phase = "discarded" /\ ~ub
    /\ orig = <<1, 1>>
    /\ written = <<Some(0), Some(1)>>
    /\ data = <<0, 1>>

\* The arguments of a panic message that give the attempted index.
IndexArgs(index) ==
    CASE index.shape = "usize" -> {Arg("index", index.index)}
      [] index.shape = "Range" ->
            {Arg("index.start", index.start), Arg("index.end", index.end)}
      [] index.shape = "RangeTo" -> {Arg("index.end", index.end)}
      [] index.shape = "RangeFrom" -> {Arg("index.start", index.start)}
      [] index.shape = "RangeFull" -> {}

ArgsOf(m) == {m.args[j] : j \in 1..Len(m.args)}
CarriesIndex == IndexArgs(last.index) \subseteq ArgsOf(panic_msg)
CarriesNoIndex == IndexArgs(last.index) \cap ArgsOf(panic_msg) = {}
CarriesLen == Arg("self.len()", last.len) \in ArgsOf(panic_msg)

\* C9 (as stated): every panic of the assertions, for every index shape, carries both
\* the attempted index and the length of the slice in its message.
C9_MessageCarriesIndexAndLen ==
    status = "panicked" => (CarriesIndex /\ CarriesLen)

\* C9 (amended): a panic for a scalar index carries the index and the length; a panic
\* for a bounded range with start > end carries start and end but not the length;
\* every other panic (bounded range with end > len, ..e, s..) carries the length
\* but not the attempted index.
C9_MessageContents ==
    status = "panicked" =>
        CASE last.index.shape = "usize" -> CarriesIndex /\ CarriesLen
          [] last.index.shape = "Range" /\ last.index.start > last.index.end ->
                CarriesIndex /\ ~CarriesLen
          [] OTHER -> CarriesLen /\ CarriesNoIndex

C9_Witness ==
    /\ status = "panicked" /\ last.index.shape = "RangeFrom"
    /\ last.index.start > last.len
    /\ panic_msg.args = <<Arg("self.len()", last.len)>>

\* The positions [s, e) of the wrapped slice that a range addresses.
RangeStart(index) == IF index.shape \in {"Range", "RangeFrom"} THEN index.start ELSE 0
RangeEnd(index, n) == IF index.shape \in {"Range", "RangeTo"} THEN index.end ELSE n

\* A range subscript that did not panic gave a view of length e - s whose element k is
\* position s + k of the array: that is what was read, and what a write stored to,
\* nothing else changed.
ViewShares ==
    LET s == RangeStart(last.index)
        e == RangeEnd(last.index, last.len)
        p == w[1].ptr + s + last.k + 1
    IN  /\ status = "ok"
        /\ last.ref = Slice(w[1].ptr + s, e - s)
        /\ (last.op = "index" /\ e > s) => last.val = Some(data[p])
        /\ data = IF last.op = "index_mut" /\ e > s
                  THEN [Expected EXCEPT ![p] = last.val[1]]
                  ELSE Expected

RangeViewSharesInBounds ==
    (/\ last.op # "none" /\ last.index.shape # "usize" /\ last.outcome # "panic"
     /\ BoundsRule(last.index, last.len)) => ViewShares

====
